---- MODULE Spec2Model ----
(***************************************************************************)
(* Model of the Minecraft status bot (src/index.js): the configuration     *)
(* store (loadDB / saveDBAtomic over servers.json and servers.json.tmp),   *)
(* the per-guild monitoring scheduler (startMonitoring / stopMonitoring /  *)
(* updateGuild), the per-server unit of work inside updateGuild, and the   *)
(* slash-command handlers that mutate the configuration.                   *)
(*                                                                         *)
(* Strings are sequences of one-character strings, so that replace() and   *)
(* slice() are computed on characters as the JavaScript does.              *)
(***************************************************************************)
EXTENDS Integers, Sequences, FiniteSets, TLC

\* ------------------------------------------------------------------ bounds
\* Interactions that may be in flight at once (each with its own save).
MaxHandlers == 2
\* updateGuild calls (cycles) that may be in flight at once.
MaxCycles == 2
\* Interval objects of one guild that may exist at once.
MaxTimers == 2
\* Process crashes followed by a restart.
MaxCrashes == 1
\* Interactions the guilds' members send in one run of the model.
MaxInteractions == 2
\* Termination signals (SIGINT, SIGTERM) the process receives.
MaxSignals == 1

\* ------------------------------------------------------------ program data
SERVER_NAME_MAX == 100

None == "none"
\* tasks.get(guildId) of a guild without an interval: falsy at line 169.
NoTimer == 0

Guilds == {"g1", "g2"}
Hosts == {"h1", "h2"}
Channels == {"c1", "c2", "c3"}

\* The guild whose channel cache holds the channel.
GuildOfChannel(c) == IF c = "c2" THEN "g2" ELSE "g1"

EmptyMap == [x \in {} |-> None]

\* ----------------------------------------------------------------- strings
\* n copies of the character c.
Repeat(c, n) == [i \in 1..n |-> c]

\* String.prototype.slice(0, n) for n >= 0.
Slice(s, n) == IF Len(s) <= n THEN s ELSE SubSeq(s, 1, n)

\* Index of the first occurrence of pat in s, 0 when there is none.
IndexOf(s, pat) ==
    LET hits == {i \in 1..(Len(s) - Len(pat) + 1) :
                    SubSeq(s, i, i + Len(pat) - 1) = pat}
    IN  IF hits = {} THEN 0 ELSE CHOOSE i \in hits : \A j \in hits : i <= j

\* String.prototype.replace(pat, rep) with a string pattern: the first
\* occurrence only; rep holds digits, so no $-pattern is expanded.
Replace(s, pat, rep) ==
    LET i == IndexOf(s, pat)
    IN  IF i = 0 THEN s
        ELSE SubSeq(s, 1, i - 1) \o rep \o SubSeq(s, i + Len(pat), Len(s))

Digit(d) == <<"0", "1", "2", "3", "4", "5", "6", "7", "8", "9">>[d + 1]

\* String(n) for an integer n >= 0.
RECURSIVE NumToStr(_)
NumToStr(n) == IF n < 10 THEN <<Digit(n)>>
               ELSE NumToStr(n \div 10) \o <<Digit(n % 10)>>

PhOnline == <<"{", "o", "n", "l", "i", "n", "e", "}">>
PhMax == <<"{", "m", "a", "x", "}">>

\* 'Online | {online}/{max}', the default of line 111.
DefaultOnlineName ==
    <<"O", "n", "l", "i", "n", "e", " ", "|", " ">> \o PhOnline \o <<"/">> \o PhMax

\* 'Offline | Server down', the default of line 125 and the text of line 277.
DefaultOfflineName ==
    <<"O", "f", "f", "l", "i", "n", "e", " ", "|", " ",
      "S", "e", "r", "v", "e", "r", " ", "d", "o", "w", "n">>

\* `Online | {online}/{max} players`, the text addserver stores (line 276).
AddOnlineName ==
    DefaultOnlineName \o <<" ", "p", "l", "a", "y", "e", "r", "s">>

\* The name of the online path, lines 109-114.
OnlineLabelUncut(cfg, res) ==
    Replace(Replace(IF cfg.onlineName = <<>> THEN DefaultOnlineName ELSE cfg.onlineName,
                    PhOnline, NumToStr(res.online)),
            PhMax, NumToStr(res.max))

OnlineLabel(cfg, res) == Slice(OnlineLabelUncut(cfg, res), SERVER_NAME_MAX)

\* The name of the offline path, line 125.
OfflineLabel(cfg) ==
    Slice(IF cfg.offlineName = <<>> THEN DefaultOfflineName ELSE cfg.offlineName,
          SERVER_NAME_MAX)

\* ------------------------------------------------------------------- state
VARIABLES
    up,         \* the process is running
    boot,       \* "login" | "registering" | "ready": progress of ClientReady
    loaded,     \* the start-up loadDB has been assigned to db (line 56)
    db,         \* the in-memory mapping guild -> [servers: host -> cfg]
    tasks,      \* the tasks Map: guild -> interval id, NoTimer when absent
    live,       \* the interval objects not yet cleared: [id, guild]
    cycles,     \* the updateGuild calls in flight
    units,      \* the per-server units of the cycles in flight
    chan,       \* the guilds' channels: exists, manageable, name
    handlers,   \* the InteractionCreate handlers in flight
    saves,      \* the saveDBAtomic calls in flight, one per caller
    dbFile,     \* content of servers.json
    tmpFile,    \* content of servers.json.tmp
    crashes,    \* crashes so far
    corruptLoad,\* loadDB has read a servers.json that was not a whole document
    hist,       \* per entry: the last settled reconciliation, while undisturbed
    lastReply,  \* the reply the most recently finished handler gave
    issued,     \* interactions received so far
    proc        \* the process: shutdown calls in flight, how it ended

vars == <<up, boot, loaded, db, tasks, live, cycles, units, chan, handlers,
          saves, dbFile, tmpFile, crashes, corruptLoad, hist, lastReply,
          issued, proc>>

Cycles == 1..MaxCycles
Slots == 1..MaxHandlers
Signals == 1..MaxSignals

\* The saveDBAtomic calls that can be in flight: one per handler, one per
\* shutdown call.
SdSlot(k) == MaxHandlers + k
Savers == 1..(MaxHandlers + MaxSignals)

\* ------------------------------------------------------------- file contents
\* JSON.stringify(db, null, 2), line 40: the text of a mapping, held as its
\* guild keys and its members (guild, host, entry). The entries hold strings,
\* numbers and booleans only, which the text carries as they are.
Stringify(d) ==
    [keys |-> DOMAIN d,
     members |-> UNION {{<<g, h, d[g].servers[h]>> : h \in DOMAIN d[g].servers} :
                            g \in DOMAIN d}]

\* JSON.parse of a whole text, line 30.
Parse(t) ==
    [g \in t.keys |-> [servers |->
        [h \in {m[2] : m \in {x \in t.members : x[1] = g}} |->
            (CHOOSE m \in t.members : m[1] = g /\ m[2] = h)[3]]]]

NoText == [keys |-> {}, members |-> {}]

\* A file is absent, holds a whole text, or holds the beginning of one: what
\* fs.writeFile leaves between truncating the file and finishing the write.
Absent == [kind |-> "absent", doc |-> NoText]
Partial == [kind |-> "partial", doc |-> NoText]
Doc(t) == [kind |-> "doc", doc |-> t]

\* loadDB, lines 27-36: ENOENT and a text JSON.parse rejects both give {}.
loadDB(file) == IF file.kind = "doc" THEN Parse(file.doc) ELSE EmptyMap


\* ------------------------------------------------------------ configuration
HasEntries(d, g) == g \in DOMAIN d /\ DOMAIN d[g].servers # {}

\* A lookup that falls back to some configured guild when g has no entry.
ServersOfAny(d, g) ==
    IF HasEntries(d, g) THEN d[g].servers
    ELSE IF \E o \in Guilds : HasEntries(d, o)
         THEN d[CHOOSE o \in Guilds : HasEntries(d, o)].servers
         ELSE EmptyMap

\* db[guild.id]?.servers of lines 79-80, an absent one read as no entries.
Servers(d, g) == IF g \in DOMAIN d THEN d[g].servers ELSE EmptyMap

\* Object.keys(servers) of lines 81 and 84: the hosts a cycle fans out to.
CycleEntries(d, g) == DOMAIN Servers(d, g)

MapPut(m, k, v) == [y \in DOMAIN m \cup {k} |-> IF y = k THEN v ELSE m[y]]
MapDel(m, k) == [y \in DOMAIN m \ {k} |-> m[y]]

\* --------------------------------------------------------------- scheduler
NoRes == [online |-> 0 - 1, max |-> 0 - 1]
NoCfg == [channelId |-> None, port |-> 0, bedrock |-> FALSE,
          onlineName |-> <<>>, offlineName |-> <<>>]
NoPrev == [label |-> <<>>, writes |-> 0 - 1, failed |-> FALSE, ch |-> None]

\* One unit of updateGuild's fan-out. name is the online name it rendered
\* (line 111), label the name of its last setName call, writes the number of
\* its setName calls; prev is
\* the entry's previous reconciliation: the one that had settled when this
\* one began, as long as no other unit has renamed the channel since.
NoUnit == [pc |-> "none", cfg |-> NoCfg, probe |-> "idle", timedOut |-> FALSE,
           late |-> FALSE, res |-> NoRes, name |-> <<>>, label |-> <<>>,
           writes |-> 0,
           wroteOnline |-> FALSE, writeFailed |-> FALSE, outcome |-> "",
           prev |-> NoPrev]

FreeCycle == [state |-> "free", guild |-> None, waiter |-> 0]

\* The scheduler's part of the state, threaded through the calls of one handler.
Sched == [tasks |-> tasks, live |-> live, cycles |-> cycles, units |-> units]

FreeCycles(S) == {c \in Cycles : S.cycles[c].state = "free"}
\* Interval objects are named by their guild and a number; a number is free
\* for a new object once the old one is cleared and forgotten.
UsedTimers(S, g) == {t.id : t \in {x \in S.live : x.guild = g}}
FreeTimers(S, g) == (1..MaxTimers) \ UsedTimers(S, g)
Min(set) == CHOOSE i \in set : \A j \in set : i <= j

\* The unit of lines 84-86 up to its first await (fetchChannelSafe).
NewUnit(g, h) ==
    [NoUnit EXCEPT !.pc = "fetching", !.cfg = Servers(db, g)[h],
                   !.prev = hist[<<g, h>>]]

\* updateGuild, lines 76-84: nothing at all without entries; else one unit
\* per entry, all launched before the first of them resumes.
updateGuild(S, g, waiter) ==
    LET c == Min(FreeCycles(S))
    IN  IF CycleEntries(db, g) = {} THEN S
        ELSE [S EXCEPT
                !.cycles = [@ EXCEPT ![c] =
                    [state |-> "running", guild |-> g, waiter |-> waiter]],
                !.units = [@ EXCEPT ![c] = [h \in Hosts |->
                    IF h \in CycleEntries(db, g) THEN NewUnit(g, h) ELSE NoUnit]]]

\* A stop that forgets the handle and leaves the interval running.
stopMonitoringNoClear(S, g) == [S EXCEPT !.tasks[g] = NoTimer]

\* stopMonitoring, lines 167-173.
stopMonitoring(S, g) ==
    IF S.tasks[g] # NoTimer
    THEN [S EXCEPT !.live = S.live \ {[id |-> S.tasks[g], guild |-> g]},
                   !.tasks[g] = NoTimer]
    ELSE S

\* setInterval and tasks.set of lines 160-161.
Arm(S, g) ==
    LET id == Min(FreeTimers(S, g))
    IN  [S EXCEPT !.live = S.live \cup {[id |-> id, guild |-> g]},
                  !.tasks[g] = id]

\* A start that forgets to tear the previous interval down.
startMonitoringNoStop(S, g) == Arm(updateGuild(S, g, 0), g)

\* startMonitoring, lines 155-165.
startMonitoring(S, g) == Arm(updateGuild(stopMonitoring(S, g), g, 0), g)

\* What one start needs of the model's pools: a cycle and an interval id.
CanStart(S, g) ==
    /\ (CycleEntries(db, g) # {} => FreeCycles(S) # {})
    /\ FreeTimers(S, g) # {}

CanUpdate(S, g) == CycleEntries(db, g) # {} => FreeCycles(S) # {}

SetSched(S) ==
    /\ tasks' = S.tasks
    /\ live' = S.live
    /\ cycles' = S.cycles
    /\ units' = S.units

\* ---------------------------------------------------------------- commands
IdleHandler == [pc |-> "idle", cmd |-> None, gid |-> None, host |-> None,
                bedrock |-> FALSE, port |-> 0, chOpt |-> None, wasLast |-> FALSE]

NoReply == [cmd |-> None, gid |-> None, reply |-> None, saveFailed |-> FALSE]

IdleSave == [pc |-> "idle", text |-> NoText, fd |-> None, failed |-> FALSE]

\* The addserver requests users send: host, Bedrock or Java, port option
\* (0 stands for an option not given).
AddRequests == {<<"h1", FALSE, 0>>, <<"h2", TRUE, 0>>}

\* The reply the requester sees (reply, editReply).
Reply(h, reply) ==
    [cmd |-> h.cmd, gid |-> h.gid, reply |-> reply, saveFailed |-> FALSE]

\* Handler i ends with this reply.
Ends(i, h, reply) ==
    /\ handlers' = [handlers EXCEPT ![i] = IdleHandler]
    /\ lastReply' = Reply(h, reply)

\* The entry addserver stores, lines 257-258 and 272-278.
NewEntry(h, ch) ==
    [channelId |-> ch,
     port |-> IF h.port # 0 THEN h.port ELSE IF h.bedrock THEN 19132 ELSE 25565,
     bedrock |-> h.bedrock,
     onlineName |-> AddOnlineName,
     offlineName |-> DefaultOfflineName]

\* Line 264: the first voice channel of the guild the bot can manage.
ManageableOf(g) ==
    {c \in Channels : GuildOfChannel(c) = g /\ chan[c].exists /\ chan[c].manageable}

\* saveDBAtomic up to its first await, lines 39-41: the text is made now.
StartSave(d) == [IdleSave EXCEPT !.pc = "tmp_open", !.text = Stringify(d)]

\* Lines 223-254 and 308-315: the handler up to its first await.
Interact(i, cmd, g, perm, host, bedrock, port, chOpt) ==
    /\ up /\ boot # "login"
    /\ issued < MaxInteractions
    /\ issued' = issued + 1
    /\ handlers[i].pc = "idle"
    /\ \A j \in Slots : j < i => handlers[j].pc # "idle"
    /\ chOpt # None => GuildOfChannel(chOpt) = g /\ chan[chOpt].exists
    /\ db' = IF g \in DOMAIN db THEN db
             ELSE MapPut(db, g, [servers |-> EmptyMap])
    /\ LET h == [IdleHandler EXCEPT !.cmd = cmd, !.gid = g]
       IN  IF ~perm THEN Ends(i, h, "denied")
           ELSE IF cmd = "list" THEN Ends(i, h, "list")
           ELSE /\ handlers' = [handlers EXCEPT ![i] =
                      IF cmd = "addserver"
                      THEN [h EXCEPT !.pc = "add_deferred", !.host = host,
                                     !.bedrock = bedrock, !.port = port,
                                     !.chOpt = chOpt]
                      ELSE IF cmd = "removeserver"
                           THEN [h EXCEPT !.pc = "rm_deferred", !.host = host]
                           ELSE [h EXCEPT !.pc = "st_deferred"]]
                /\ UNCHANGED lastReply
    /\ UNCHANGED <<up, boot, loaded, tasks, live, cycles, units, chan, saves,
                   dbFile, tmpFile, crashes, corruptLoad, hist,
                   proc>>

\* addserver after deferReply, lines 255-280.
AddContinue(i) ==
    LET h == handlers[i]
        ch == IF h.chOpt # None THEN h.chOpt
              ELSE IF ManageableOf(h.gid) # {}
                   THEN CHOOSE c \in ManageableOf(h.gid) : TRUE
                   ELSE None
    IN  /\ up /\ h.pc = "add_deferred"
        /\ IF ch = None
           THEN /\ Ends(i, h, "nochannel")
                /\ UNCHANGED <<db, saves>>
           ELSE IF h.gid \notin DOMAIN db
           THEN \* db[gid] is undefined: TypeError, caught at line 329
                /\ Ends(i, h, "error")
                /\ UNCHANGED <<db, saves>>
           ELSE /\ db' = [db EXCEPT ![h.gid].servers =
                            MapPut(@, h.host, NewEntry(h, ch))]
                /\ saves' = [saves EXCEPT ![i] = StartSave(db')]
                /\ handlers' = [handlers EXCEPT ![i].pc = "add_saving"]
                /\ UNCHANGED lastReply
        /\ UNCHANGED <<up, boot, loaded, tasks, live, cycles, units, chan,
                       dbFile, tmpFile, crashes, corruptLoad, hist, issued,
                   proc>>

\* A caller that goes on as soon as its save has begun.
SaveBegun(sv) == sv.pc # "idle"
\* await saveDBAtomic(db), lines 280, 303 and 365: the caller resumes when
\* the call has returned.
SaveReturned(sv) == sv.pc = "resolved"

\* What the requester is told once saveDBAtomic has returned, lines 283, 304.
ReplyAfterSave(h, sv) == [Reply(h, "ok") EXCEPT !.saveFailed = sv.failed]

\* addserver after the save, lines 281-285.
AddAfterSave(i) ==
    LET h == handlers[i]
    IN  /\ up /\ h.pc = "add_saving" /\ SaveReturned(saves[i])
        /\ CanStart(Sched, h.gid)
        /\ SetSched(startMonitoring(Sched, h.gid))
        /\ handlers' = [handlers EXCEPT ![i] = IdleHandler]
        /\ lastReply' = ReplyAfterSave(h, saves[i])
        /\ saves' = [saves EXCEPT ![i] = IdleSave]
        /\ UNCHANGED <<up, boot, loaded, db, chan, dbFile, tmpFile, crashes,
                       corruptLoad, hist, issued,
                   proc>>

\* The mapping after delete db[gid].servers[host] and lines 299-300.
RemoveEntry(d, g, host) ==
    IF DOMAIN d[g].servers = {host} THEN MapDel(d, g)
    ELSE [d EXCEPT ![g].servers = MapDel(@, host)]

\* A removal that keeps the emptied guild key and its interval.
RemoveSchedNoStop(S, d, g, host) == S
\* Line 301: the interval goes with the last entry.
RemoveSched(S, d, g, host) ==
    IF DOMAIN d[g].servers = {host} THEN stopMonitoring(S, g) ELSE S

\* removeserver after deferReply, lines 292-303.
RemoveContinue(i) ==
    LET h == handlers[i]
    IN  /\ up /\ h.pc = "rm_deferred"
        /\ IF h.gid \notin DOMAIN db
           THEN \* db[gid] is undefined: TypeError, caught at line 329
                /\ Ends(i, h, "error")
                /\ UNCHANGED <<db, saves, tasks, live, cycles, units>>
           ELSE IF h.host \notin DOMAIN db[h.gid].servers
           THEN /\ Ends(i, h, "notfound")
                /\ UNCHANGED <<db, saves, tasks, live, cycles, units>>
           ELSE /\ db' = RemoveEntry(db, h.gid, h.host)
                /\ SetSched(RemoveSched(Sched, db, h.gid, h.host))
                /\ saves' = [saves EXCEPT ![i] = StartSave(db')]
                /\ handlers' = [handlers EXCEPT ![i] =
                      [h EXCEPT !.pc = "rm_saving",
                                !.wasLast = (DOMAIN db[h.gid].servers = {h.host})]]
                /\ UNCHANGED lastReply
        /\ UNCHANGED <<up, boot, loaded, chan, dbFile, tmpFile, crashes,
                       corruptLoad, hist, issued,
                   proc>>

\* removeserver after the save, line 304.
RemoveAfterSave(i) ==
    LET h == handlers[i]
    IN  /\ up /\ h.pc = "rm_saving" /\ SaveReturned(saves[i])
        /\ handlers' = [handlers EXCEPT ![i] = IdleHandler]
        /\ lastReply' = ReplyAfterSave(h, saves[i])
        /\ saves' = [saves EXCEPT ![i] = IdleSave]
        /\ UNCHANGED <<up, boot, loaded, db, tasks, live, cycles, units, chan,
                       dbFile, tmpFile, crashes, corruptLoad, hist, issued,
                   proc>>

\* status after deferReply, lines 319-322: without entries updateGuild has
\* already returned and the reply follows at once.
StatusContinue(i) ==
    LET h == handlers[i]
    IN  /\ up /\ h.pc = "st_deferred"
        /\ CanUpdate(Sched, h.gid)
        /\ SetSched(updateGuild(Sched, h.gid, i))
        /\ IF CycleEntries(db, h.gid) = {} THEN Ends(i, h, "updated")
           ELSE /\ handlers' = [handlers EXCEPT ![i].pc = "st_waiting"]
                /\ UNCHANGED lastReply
        /\ UNCHANGED <<up, boot, loaded, db, chan, saves, dbFile, tmpFile,
                       crashes, corruptLoad, hist, issued,
                   proc>>

\* ------------------------------------------------------------ saveDBAtomic
\* The descriptors other saves hold after rename(tmp, db): the inode that was
\* servers.json.tmp is now servers.json, the old servers.json is unlinked.
AfterRename(fd) == IF fd = "tmp" THEN "db" ELSE IF fd = "db" THEN "gone" ELSE fd

\* The catch of lines 43-47: the mapping is serialized again, as it is now.
Fallback(sv) == [sv EXCEPT !.pc = "fb_open", !.text = Stringify(db), !.fd = None]

\* Lines 48-50 swallow the second failure: the call returns normally.
Resolved(sv, failed) == [IdleSave EXCEPT !.pc = "resolved", !.failed = failed]

SaveFrame == UNCHANGED <<up, boot, loaded, db, tasks, live, cycles, units, chan,
                         handlers, crashes, corruptLoad, hist, lastReply, issued,
                   proc>>

\* fs.writeFile(TMP_DB_FILE) opens the file: created or truncated (line 41).
TmpOpen(s) ==
    /\ up /\ saves[s].pc = "tmp_open"
    /\ tmpFile' = Partial
    /\ saves' = [saves EXCEPT ![s].pc = "tmp_write", ![s].fd = "tmp"]
    /\ UNCHANGED dbFile /\ SaveFrame

\* The write lands in the inode the descriptor names, whatever its path is now.
TmpWrite(s) ==
    /\ up /\ saves[s].pc = "tmp_write"
    /\ tmpFile' = IF saves[s].fd = "tmp" THEN Doc(saves[s].text) ELSE tmpFile
    /\ dbFile' = IF saves[s].fd = "db" THEN Doc(saves[s].text) ELSE dbFile
    /\ saves' = [saves EXCEPT ![s].pc = "rename", ![s].fd = None]
    /\ SaveFrame

\* fs.rename(TMP_DB_FILE, DB_FILE), line 42: one atomic replace.
Rename(s) ==
    /\ up /\ saves[s].pc = "rename" /\ tmpFile.kind # "absent"
    /\ dbFile' = tmpFile
    /\ tmpFile' = Absent
    /\ saves' = [t \in Savers |->
          IF t = s THEN Resolved(saves[s], FALSE)
          ELSE [saves[t] EXCEPT !.fd = AfterRename(@)]]
    /\ SaveFrame

\* fs.rename finds no servers.json.tmp (ENOENT): another save has renamed it
\* away. The catch of line 43 runs.
RenameMissing(s) ==
    /\ up /\ saves[s].pc = "rename" /\ tmpFile.kind = "absent"
    /\ saves' = [saves EXCEPT ![s] = Fallback(saves[s])]
    /\ UNCHANGED <<dbFile, tmpFile>> /\ SaveFrame

\* The temp write or the rename rejects (EACCES, ENOSPC, EPERM; ENOENT when
\* another save has renamed the temp file away): the catch of line 43 runs.
\* A write that fails half-way leaves what it had written.
AtomicPathFails(s) ==
    /\ up /\ saves[s].pc \in {"tmp_open", "tmp_write", "rename"}
    /\ saves' = [saves EXCEPT ![s] = Fallback(saves[s])]
    /\ UNCHANGED <<dbFile, tmpFile>> /\ SaveFrame

\* fs.writeFile(DB_FILE) of line 47 opens servers.json itself and truncates it.
FbOpen(s) ==
    /\ up /\ saves[s].pc = "fb_open"
    /\ dbFile' = Partial
    /\ saves' = [saves EXCEPT ![s].pc = "fb_write", ![s].fd = "db"]
    /\ UNCHANGED tmpFile /\ SaveFrame

FbWrite(s) ==
    /\ up /\ saves[s].pc = "fb_write"
    /\ dbFile' = IF saves[s].fd = "db" THEN Doc(saves[s].text) ELSE dbFile
    /\ saves' = [saves EXCEPT ![s] = Resolved(saves[s], FALSE)]
    /\ UNCHANGED tmpFile /\ SaveFrame

\* The fallback write rejects too: logged at line 49, nothing is thrown.
FallbackFails(s) ==
    /\ up /\ saves[s].pc \in {"fb_open", "fb_write"}
    /\ saves' = [saves EXCEPT ![s] = Resolved(saves[s], TRUE)]
    /\ UNCHANGED <<dbFile, tmpFile>> /\ SaveFrame

\* --------------------------------------------------------------- lifecycle
NoTasks == [g \in Guilds |-> NoTimer]
NoCycles == [c \in Cycles |-> FreeCycle]
NoUnits == [c \in Cycles |-> [h \in Hosts |-> NoUnit]]
NoHandlers == [i \in Slots |-> IdleHandler]
NoSaves == [i \in Savers |-> IdleSave]
\* No shutdown call has begun, the process has not ended, nothing was logged
\* by the unhandledRejection listener.
NoProc == [sd |-> [k \in Signals |-> "none"], cause |-> "none",
           rejected |-> FALSE]
NoHist == [e \in Guilds \X Hosts |-> NoPrev]

\* What a fresh process holds in memory, lines 23-24 and 55.
FreshMemory ==
    /\ boot' = "login"
    /\ loaded' = FALSE
    /\ db' = EmptyMap
    /\ tasks' = NoTasks
    /\ live' = {}
    /\ cycles' = NoCycles
    /\ units' = NoUnits
    /\ handlers' = NoHandlers
    /\ saves' = NoSaves
    /\ hist' = NoHist
    /\ lastReply' = NoReply

\* The process dies at an arbitrary point; the files stay as they are.
Crash ==
    /\ up /\ crashes < MaxCrashes
    /\ up' = FALSE
    /\ crashes' = crashes + 1
    /\ FreshMemory
    /\ UNCHANGED <<chan, dbFile, tmpFile, corruptLoad, issued, proc>>

Restart ==
    /\ ~up
    /\ up' = TRUE
    /\ UNCHANGED <<boot, loaded, db, tasks, live, cycles, units, chan, handlers,
                   saves, dbFile, tmpFile, crashes, corruptLoad, hist, lastReply, issued,
                   proc>>

\* Line 56: db = await loadDB().
LoadDone ==
    /\ up /\ ~loaded
    /\ loaded' = TRUE
    /\ db' = loadDB(dbFile)
    /\ corruptLoad' = (corruptLoad \/ dbFile.kind = "partial")
    /\ UNCHANGED <<up, boot, tasks, live, cycles, units, chan, handlers, saves,
                   dbFile, tmpFile, crashes, hist, lastReply, issued,
                   proc>>

\* ClientReady fires and awaits registerCommands, lines 210-212.
ReadyEvent ==
    /\ up /\ boot = "login"
    /\ boot' = "registering"
    /\ UNCHANGED <<up, loaded, db, tasks, live, cycles, units, chan, handlers,
                   saves, dbFile, tmpFile, crashes, corruptLoad, hist, lastReply, issued,
                   proc>>

RECURSIVE StartAll(_, _)
StartAll(S, gs) ==
    IF gs = {} THEN S
    ELSE LET g == CHOOSE x \in gs : TRUE
         IN  StartAll(IF HasEntries(db, g) THEN startMonitoring(S, g) ELSE S,
                      gs \ {g})

\* The loop of lines 215-219.
ReadyLoop ==
    /\ up /\ boot = "registering"
    /\ LET n == Cardinality({g \in Guilds : HasEntries(db, g)})
       IN  Cardinality(FreeCycles(Sched)) >= n
    /\ boot' = "ready"
    /\ SetSched(StartAll(Sched, Guilds))
    /\ \A g \in Guilds : FreeTimers(Sched, g) # {}
    /\ UNCHANGED <<up, loaded, db, chan, handlers, saves, dbFile, tmpFile,
                   crashes, corruptLoad, hist, lastReply, issued,
                   proc>>

\* ------------------------------------------------- signals and fatal errors
\* Lines 353 and 364: clearInterval for every id the tasks map holds. The map
\* itself keeps its keys.
ClearNone(S) == S
ClearAll(S) == [S EXCEPT !.live = {t \in S.live : S.tasks[t.guild] # t.id}]

\* SIGINT or SIGTERM: shutdown up to its first await, lines 362-365.
Signal(k) ==
    /\ up /\ proc.sd[k] = "none"
    /\ \A j \in Signals : j < k => proc.sd[j] # "none"
    /\ SetSched(ClearAll(Sched))
    /\ saves' = [saves EXCEPT ![SdSlot(k)] = StartSave(db)]
    /\ proc' = [proc EXCEPT !.sd[k] = "saving"]
    /\ UNCHANGED <<up, boot, loaded, db, chan, handlers, dbFile, tmpFile,
                   crashes, corruptLoad, hist, lastReply, issued>>

\* saveDBAtomic has returned (it never throws); client.destroy() is awaited,
\* line 366.
ShutdownSaved(k) ==
    /\ up /\ proc.sd[k] = "saving" /\ SaveReturned(saves[SdSlot(k)])
    /\ saves' = [saves EXCEPT ![SdSlot(k)] = IdleSave]
    /\ proc' = [proc EXCEPT !.sd[k] = "destroying"]
    /\ UNCHANGED <<up, boot, loaded, db, tasks, live, cycles, units, chan,
                   handlers, dbFile, tmpFile, crashes, corruptLoad, hist,
                   lastReply, issued>>

\* process.exit(0), line 367. What the process held when it ended stays in
\* the state; nothing of it runs any more.
ShutdownExit(k) ==
    /\ up /\ proc.sd[k] = "destroying"
    /\ up' = FALSE
    /\ proc' = [proc EXCEPT !.sd[k] = "exited", !.cause = "signal"]
    /\ UNCHANGED <<boot, loaded, db, tasks, live, cycles, units, chan, handlers,
                   saves, dbFile, tmpFile, crashes, corruptLoad, hist,
                   lastReply, issued>>

\* The uncaughtException listener, lines 349-359: the intervals are cleared,
\* the client is destroyed and the process exits with code 1, in one
\* synchronous run. (An exception nothing catches: an 'error' event of the
\* client, which has no listener.)
UncaughtException ==
    /\ up
    /\ SetSched(ClearAll(Sched))
    /\ up' = FALSE
    /\ proc' = [proc EXCEPT !.cause = "exception"]
    /\ UNCHANGED <<boot, loaded, db, chan, handlers, saves, dbFile, tmpFile,
                   crashes, corruptLoad, hist, lastReply, issued>>

\* The unhandledRejection listener, lines 345-347: the rejection is logged.
\* (A promise nobody awaits: the reply of line 239 or 247, returned out of
\* the try block without await, rejecting for an interaction that expired.)
UnhandledRejection ==
    /\ up /\ ~proc.rejected
    /\ proc' = [proc EXCEPT !.rejected = TRUE]
    /\ UNCHANGED <<up, boot, loaded, db, tasks, live, cycles, units, chan,
                   handlers, saves, dbFile, tmpFile, crashes, corruptLoad,
                   hist, lastReply, issued>>

\* ------------------------------------------------------------ updateGuild
\* What minecraft-server-util may report: result.players.online / .max.
ProbeResults == {[online |-> 5, max |-> 20]}

\* fetchChannelSafe, lines 141-153: the channel of this guild, or null.
fetchChannelSafe(g, id) ==
    IF id \in Channels /\ GuildOfChannel(id) = g /\ chan[id].exists THEN id ELSE None

\* What the settled unit leaves for the next reconciliation of its entry.
SettleRec(u) ==
    IF u.res = NoRes THEN NoPrev
    ELSE [label |-> u.name, writes |-> u.writes,
          failed |-> u.writeFailed, ch |-> u.cfg.channelId]

Forget(p, ch) == IF p.ch = ch THEN NoPrev ELSE p

\* One step of unit (c, h): it becomes u2; with renamed, channel ch now carries
\* u2.label. A rename ends what every other reconciliation of ch had observed.
UnitStep(c, h, u2, renamed) ==
    LET e == <<cycles[c].guild, h>>
        ch == u2.cfg.channelId
    IN  /\ units' = [c2 \in Cycles |-> [h2 \in Hosts |->
              IF c2 = c /\ h2 = h THEN u2
              ELSE IF renamed
                   THEN [units[c2][h2] EXCEPT !.prev = Forget(@, ch)]
                   ELSE units[c2][h2]]]
        /\ hist' = [x \in DOMAIN hist |->
                      IF x = e /\ u2.pc = "done" THEN SettleRec(u2)
                      ELSE IF renamed THEN Forget(hist[x], ch)
                      ELSE hist[x]]
        /\ chan' = IF renamed THEN [chan EXCEPT ![ch].name = u2.label] ELSE chan
        /\ UNCHANGED <<up, boot, loaded, db, tasks, live, cycles, handlers, saves,
                       dbFile, tmpFile, crashes, corruptLoad, lastReply, issued,
                   proc>>

Finish(u, outcome) == [u EXCEPT !.pc = "done", !.outcome = outcome]

\* channel.setName(name) is called: lines 118 and 126.
CallSetName(u, pc, name) ==
    [u EXCEPT !.pc = pc, !.label = name, !.writes = @ + 1]

\* Lines 86-107: the channel is looked up and checked, then the status query
\* and its 7 s guard are started.
UnitFetched(c, h) ==
    LET u == units[c][h]
        ch == fetchChannelSafe(cycles[c].guild, u.cfg.channelId)
    IN  /\ up /\ u.pc = "fetching"
        /\ UnitStep(c, h,
              IF ch = None THEN Finish(u, "notfound")
              ELSE IF ~chan[ch].manageable
                   THEN Finish(u, "skipped")
                   ELSE [u EXCEPT !.pc = "probing", !.probe = "pending"],
              FALSE)

\* Lines 109-119 once the status query has resolved in time.
OnlinePathAlwaysWrites(u, res) ==
    CallSetName([u EXCEPT !.res = res, !.probe = "settled", !.wroteOnline = TRUE,
                          !.name = OnlineLabel(u.cfg, res)],
                "writing", OnlineLabel(u.cfg, res))
OnlinePath(u, res) ==
    LET name == OnlineLabel(u.cfg, res)
        v == [u EXCEPT !.res = res, !.probe = "settled", !.name = name]
    IN  IF chan[u.cfg.channelId].name # name
        THEN CallSetName([v EXCEPT !.wroteOnline = TRUE], "writing", name)
        ELSE Finish(v, "unchanged")

ProbeResolves(c, h, res) ==
    /\ up /\ units[c][h].pc = "probing"
    /\ UnitStep(c, h, OnlinePath(units[c][h], res), FALSE)

\* The status query rejects in time: the catch of line 120 is entered and
\* awaits fetchChannelSafe again.
ProbeRejects(c, h) ==
    /\ up /\ units[c][h].pc = "probing"
    /\ UnitStep(c, h, [units[c][h] EXCEPT !.pc = "catch", !.probe = "settled"],
                FALSE)

\* A guard whose timer only notes the timeout and rejects nothing.
withTimeoutNoReject(u) == [u EXCEPT !.timedOut = TRUE]
\* withTimeout, lines 59-73: the guard timer fires first and rejects the race;
\* the status query stays in flight.
withTimeout(u) == [u EXCEPT !.pc = "catch", !.timedOut = TRUE]

GuardFires(c, h) ==
    /\ up /\ units[c][h].pc = "probing" /\ ~units[c][h].timedOut
    /\ UnitStep(c, h, withTimeout(units[c][h]), FALSE)

\* The status query settles after the race is over: nobody listens.
LateResult(c, h) ==
    /\ up /\ units[c][h].probe = "pending" /\ units[c][h].timedOut
    /\ units[c][h].pc # "probing"
    /\ UnitStep(c, h, [units[c][h] EXCEPT !.probe = "settled", !.late = TRUE], FALSE)

\* setName of line 118 resolves: the channel carries the name.
WriteOk(c, h) ==
    LET u == units[c][h]
    IN  /\ up /\ u.pc = "writing"
        /\ chan[u.cfg.channelId].exists /\ chan[u.cfg.channelId].manageable
        /\ UnitStep(c, h, Finish(u, "updated"), TRUE)

\* setName of line 118 rejects (rate limit, missing permission, unknown channel).
WriteFails(c, h) ==
    /\ up /\ units[c][h].pc = "writing"
    /\ UnitStep(c, h, [units[c][h] EXCEPT !.pc = "catch", !.writeFailed = TRUE],
                FALSE)

\* The offline path without the 100-character cut.
OfflinePathUncut(u) ==
    LET name == IF u.cfg.offlineName = <<>> THEN DefaultOfflineName
                ELSE u.cfg.offlineName
    IN  IF chan[u.cfg.channelId].name # name
        THEN CallSetName(u, "fbwriting", name)
        ELSE Finish(u, "offline_unchanged")
\* Lines 124-126 for a channel that was found and is manageable.
OfflinePath(u) ==
    LET name == OfflineLabel(u.cfg)
    IN  IF chan[u.cfg.channelId].name # name
        THEN CallSetName(u, "fbwriting", name)
        ELSE Finish(u, "offline_unchanged")

\* A fallback that writes without asking whether the channel is manageable.
CatchPathUnchecked(u, ch) ==
    IF ch # None THEN OfflinePath(u) ELSE Finish(u, "offline_skipped")
\* Lines 122-127: the catch has the channel again.
CatchPath(u, ch) ==
    IF ch # None /\ chan[ch].manageable THEN OfflinePath(u)
    ELSE Finish(u, "offline_skipped")

CatchFetched(c, h) ==
    LET u == units[c][h]
    IN  /\ up /\ u.pc = "catch"
        /\ UnitStep(c, h,
              CatchPath(u, fetchChannelSafe(cycles[c].guild, u.cfg.channelId)),
              FALSE)

\* setName of line 126 resolves.
FbWriteOk(c, h) ==
    LET u == units[c][h]
    IN  /\ up /\ u.pc = "fbwriting"
        /\ chan[u.cfg.channelId].exists /\ chan[u.cfg.channelId].manageable
        /\ UnitStep(c, h, Finish(u, "offline"), TRUE)

\* An exception in the catch block that nothing catches: the unit rejects.
InnerCatchMissing(u) == [u EXCEPT !.pc = "rejected", !.writeFailed = TRUE]
\* Lines 128-131: the inner catch logs it and the unit ends normally.
InnerCatch(u) == Finish([u EXCEPT !.writeFailed = TRUE], "offline_failed")

\* setName of line 126 rejects.
FbWriteFails(c, h) ==
    /\ up /\ units[c][h].pc = "fbwriting"
    /\ UnitStep(c, h, InnerCatch(units[c][h]), FALSE)

\* A join that also waits for the status query a timed-out race left behind.
SettledWithQuery(u) ==
    u.pc \in {"none", "done", "rejected"} /\ u.probe # "pending"
\* Promise.allSettled, line 84: a unit counts once its async function has
\* returned or thrown.
Settled(u) == u.pc \in {"none", "done", "rejected"}

\* Promise.allSettled of line 84 resolves, updateGuild returns; a status
\* command waiting for it replies (line 322).
CycleJoin(c) ==
    /\ up /\ cycles[c].state = "running"
    /\ \A h \in Hosts : Settled(units[c][h])
    /\ cycles' = [cycles EXCEPT ![c] = FreeCycle]
    /\ units' = [units EXCEPT ![c] = [h \in Hosts |-> NoUnit]]
    /\ IF cycles[c].waiter = 0 THEN UNCHANGED <<handlers, lastReply>>
       ELSE Ends(cycles[c].waiter, handlers[cycles[c].waiter], "updated")
    /\ UNCHANGED <<up, boot, loaded, db, tasks, live, chan, saves, dbFile, tmpFile,
                   crashes, corruptLoad, hist, issued,
                   proc>>

\* The interval of line 160 fires.
Tick(g) ==
    /\ up /\ \E t \in live : t.guild = g
    /\ CanUpdate(Sched, g)
    /\ SetSched(updateGuild(Sched, g, 0))
    /\ UNCHANGED <<up, boot, loaded, db, chan, handlers, saves, dbFile, tmpFile,
                   crashes, corruptLoad, hist, lastReply, issued,
                   proc>>

\* ------------------------------------------------------------- environment
EnvFrame == UNCHANGED <<up, boot, loaded, db, tasks, live, cycles, handlers,
                        saves, dbFile, tmpFile, crashes, corruptLoad, lastReply, issued,
                   proc>>

\* The guild grants or withdraws the bot's right to manage the channel.
SetManageable(ch, b) ==
    /\ chan[ch].exists /\ chan[ch].manageable # b
    /\ chan' = [chan EXCEPT ![ch].manageable = b]
    /\ UNCHANGED <<units, hist>> /\ EnvFrame

\* ------------------------------------------------------------ specifications
\* A servers.json left by an earlier run: g1 monitors h1.
DocA == [g \in {"g1"} |-> [servers |-> [h \in {"h1"} |->
            [channelId |-> "c1", port |-> 25565, bedrock |-> FALSE,
             onlineName |-> AddOnlineName, offlineName |-> DefaultOfflineName]]]]

VoiceName == <<"v", "c">>

InitMemory ==
    /\ up = TRUE
    /\ boot = "login"
    /\ loaded = FALSE
    /\ db = EmptyMap
    /\ tasks = NoTasks
    /\ live = {}
    /\ cycles = NoCycles
    /\ units = NoUnits
    /\ handlers = NoHandlers
    /\ saves = NoSaves
    /\ hist = NoHist
    /\ lastReply = NoReply
    /\ crashes = 0
    /\ corruptLoad = FALSE
    /\ issued = 0
    /\ proc = NoProc
    /\ tmpFile = Absent

\* The command layer and the store, in guilds whose channels the bot cannot
\* manage: every unit ends at its manageability check.
Init ==
    /\ InitMemory
    /\ dbFile \in {Absent, Doc(Stringify(DocA))}
    /\ chan = [c \in Channels |->
                  [exists |-> TRUE, manageable |-> FALSE, name |-> VoiceName]]

\* No updateGuild call is in flight.
Quiet == \A c \in Cycles : cycles[c].state = "free"

\* No updateGuild call of guild g is in flight.
Idle(g) == \A c \in Cycles : cycles[c].guild # g

\* The members' commands as handler i receives and continues them.
Command(i) ==
    \/ \E g \in Guilds, perm \in BOOLEAN, r \in AddRequests,
          ch \in Channels \cup {None} :
          Interact(i, "addserver", g, perm, r[1], r[2], r[3], ch)
    \/ \E g \in Guilds, h \in Hosts :
          Interact(i, "removeserver", g, TRUE, h, FALSE, 0, None)
    \/ \E g \in Guilds, cmd \in {"list", "status"} :
          Interact(i, cmd, g, TRUE, None, FALSE, 0, None)
    \/ AddContinue(i)
    \/ AddAfterSave(i)
    \/ RemoveContinue(i)
    \/ RemoveAfterSave(i)
    \/ StatusContinue(i)

\* saveDBAtomic when the file system does what it is asked.
SaveSteps ==
    \/ \E s \in Slots : TmpOpen(s)
    \/ \E s \in Slots : TmpWrite(s)
    \/ \E s \in Slots : Rename(s)

\* The file system refusing a step of a save.
SaveFailures ==
    \/ \E s \in Slots : AtomicPathFails(s)
    \/ \E s \in Slots : FbOpen(s)
    \/ \E s \in Slots : FbWrite(s)
    \/ \E s \in Slots : FallbackFails(s)

Startup ==
    \/ LoadDone
    \/ ReadyEvent
    \/ ReadyLoop

\* The units of a guild whose channels the bot cannot manage.
UnmanagedCycles ==
    \/ \E c \in Cycles, h \in Hosts : UnitFetched(c, h)
    \/ \E c \in Cycles : CycleJoin(c)

\* The scheduler under the members' commands, handled one at a time. A cycle
\* takes milliseconds and runs to its end before the next command, tick or
\* file step.
Next ==
    \/ Quiet /\ Command(1)
    \/ Quiet /\ SaveSteps
    \/ Quiet /\ Startup
    \/ Quiet /\ \E g \in Guilds : Tick(g)
    \/ UnmanagedCycles

Spec == Init /\ [][Next]_vars

\* The store under a file system that may refuse any step and a process
\* that may die at any point, the commands handled one at a time.
NextStore ==
    \/ Quiet /\ Command(1)
    \/ Quiet /\ SaveSteps
    \/ Quiet /\ SaveFailures
    \/ Quiet /\ Startup
    \/ Quiet /\ \E g \in Guilds : Tick(g)
    \/ Crash
    \/ Restart
    \/ UnmanagedCycles

SpecStore == Init /\ [][NextStore]_vars

\* ---- the monitoring cycles, in guilds whose channels the bot can manage
LongName == Repeat("x", 96)

Managed(names) ==
    [c \in Channels |-> [exists |-> TRUE, manageable |-> TRUE, name |-> names[c]]]

\* A servers.json edited by hand: g1 monitors h1 with names longer than a
\* channel name may be; g2 has lost its last entry and kept its key.
DocX ==
    [g \in Guilds |-> [servers |->
        IF g = "g1"
        THEN [h \in {"h1"} |->
                [channelId |-> "c1", port |-> 25565, bedrock |-> FALSE,
                 onlineName |-> LongName \o AddOnlineName,
                 offlineName |-> LongName \o DefaultOfflineName]]
        ELSE EmptyMap]]

InitCycle ==
    /\ InitMemory
    /\ dbFile = Doc(Stringify(DocX))
    /\ chan = Managed([c \in Channels |-> VoiceName])

\* One unit at a time, under everything that can happen to it: the status
\* query resolving, rejecting, timing out and settling late, setName
\* resolving and rejecting, the right to manage the channel coming and going.
NextCycle ==
    \/ \E i \in Slots, g \in Guilds :
          Interact(i, "status", g, TRUE, None, FALSE, 0, None)
    \/ \E i \in Slots : Idle(handlers[i].gid) /\ StatusContinue(i)
    \/ Startup
    \/ \E g \in Guilds : Idle(g) /\ Tick(g)
    \/ \E c \in Cycles, h \in Hosts : UnitFetched(c, h)
    \/ \E c \in Cycles, h \in Hosts, r \in ProbeResults : ProbeResolves(c, h, r)
    \/ \E c \in Cycles, h \in Hosts : ProbeRejects(c, h)
    \/ \E c \in Cycles, h \in Hosts : GuardFires(c, h)
    \/ \E c \in Cycles, h \in Hosts : LateResult(c, h)
    \/ \E c \in Cycles, h \in Hosts : WriteOk(c, h)
    \/ \E c \in Cycles, h \in Hosts : WriteFails(c, h)
    \/ \E c \in Cycles, h \in Hosts : CatchFetched(c, h)
    \/ \E c \in Cycles, h \in Hosts : FbWriteOk(c, h)
    \/ \E c \in Cycles, h \in Hosts : FbWriteFails(c, h)
    \/ \E c \in Cycles : CycleJoin(c)
    \/ \E b \in BOOLEAN : SetManageable("c1", b)

SpecCycle == InitCycle /\ [][NextCycle]_vars

\* ---- the fan-out: the units of one cycle and the cycles of two guilds
\* g1 monitors h1 with the default names and h2; g2 monitors h1 on a channel
\* the bot may not manage.
DocF ==
    [g \in Guilds |-> [servers |->
        IF g = "g1"
        THEN [h \in Hosts |->
                IF h = "h1"
                THEN [channelId |-> "c1", port |-> 25565, bedrock |-> FALSE,
                      onlineName |-> <<>>, offlineName |-> <<>>]
                ELSE [channelId |-> "c3", port |-> 19132, bedrock |-> TRUE,
                      onlineName |-> AddOnlineName,
                      offlineName |-> DefaultOfflineName]]
        ELSE [h \in {"h1"} |->
                [channelId |-> "c2", port |-> 25565, bedrock |-> FALSE,
                 onlineName |-> AddOnlineName,
                 offlineName |-> DefaultOfflineName]]]]

InitFan ==
    /\ InitMemory
    /\ dbFile = Doc(Stringify(DocF))
    /\ chan = [Managed([c \in Channels |-> VoiceName]) EXCEPT
                  !["c2"].manageable = FALSE]

NextFan ==
    \/ Startup
    \/ \E g \in Guilds : Idle(g) /\ Tick(g)
    \/ \E c \in Cycles, h \in Hosts : UnitFetched(c, h)
    \/ \E c \in Cycles, h \in Hosts, r \in ProbeResults : ProbeResolves(c, h, r)
    \/ \E c \in Cycles, h \in Hosts : ProbeRejects(c, h)
    \/ \E c \in Cycles, h \in Hosts : WriteOk(c, h)
    \/ \E c \in Cycles, h \in Hosts : WriteFails(c, h)
    \/ \E c \in Cycles, h \in Hosts : CatchFetched(c, h)
    \/ \E c \in Cycles, h \in Hosts : FbWriteOk(c, h)
    \/ \E c \in Cycles, h \in Hosts : FbWriteFails(c, h)
    \/ \E c \in Cycles : CycleJoin(c)

SpecFan == InitFan /\ [][NextFan]_vars

\* A run that starts from the servers.json an earlier run left.
InitDown ==
    /\ InitMemory
    /\ dbFile = Doc(Stringify(DocA))
    /\ chan = [c \in Channels |->
                  [exists |-> TRUE, manageable |-> FALSE, name |-> VoiceName]]

\* ---- handlers of one guild suspended at their awaits at the same time
\* The members of g1 add and remove servers; the commands arrive once the
\* configuration is loaded.
RaceCommand(i) ==
    \/ \E r \in AddRequests :
          Interact(i, "addserver", "g1", TRUE, r[1], r[2], r[3], "c1")
    \/ \E h \in Hosts : Interact(i, "removeserver", "g1", TRUE, h, FALSE, 0, None)
    \/ AddContinue(i)
    \/ AddAfterSave(i)
    \/ RemoveContinue(i)
    \/ RemoveAfterSave(i)

\* saveDBAtomic with nothing refused from outside: the only failure is the
\* rename that finds the temp file gone.
SharedTmpSteps ==
    \/ SaveSteps
    \/ \E s \in Slots : RenameMissing(s)
    \/ \E s \in Slots : FbOpen(s)
    \/ \E s \in Slots : FbWrite(s)

\* A cycle takes milliseconds and runs to its end before the next step of a
\* handler or of a save.
NextRace ==
    \/ (Quiet /\ loaded) /\ \E i \in Slots : RaceCommand(i)
    \/ Quiet /\ SharedTmpSteps
    \/ Quiet /\ Startup
    \/ UnmanagedCycles

SpecRace == InitDown /\ [][NextRace]_vars

\* ---- cycles whose status queries may never answer
\* The fan-out of DocF with the 7 s guard: a status query resolves, rejects
\* or stays pending for ever; then only the guard ends the wait.
NextLive ==
    \/ Startup
    \/ \E g \in Guilds : Idle(g) /\ Tick(g)
    \/ \E c \in Cycles, h \in Hosts : UnitFetched(c, h)
    \/ \E c \in Cycles, h \in Hosts, r \in ProbeResults : ProbeResolves(c, h, r)
    \/ \E c \in Cycles, h \in Hosts : ProbeRejects(c, h)
    \/ \E c \in Cycles, h \in Hosts : GuardFires(c, h)
    \/ \E c \in Cycles, h \in Hosts : WriteOk(c, h)
    \/ \E c \in Cycles, h \in Hosts : WriteFails(c, h)
    \/ \E c \in Cycles, h \in Hosts : CatchFetched(c, h)
    \/ \E c \in Cycles, h \in Hosts : FbWriteOk(c, h)
    \/ \E c \in Cycles, h \in Hosts : FbWriteFails(c, h)
    \/ \E c \in Cycles : CycleJoin(c)

\* What the runtime guarantees: the setTimeout of line 62 fires when its
\* race is still open; the calls to the Discord API (channel fetch, setName)
\* settle, being under the REST client's own request timeout; a settled
\* Promise.allSettled resumes updateGuild. Nothing is assumed of the status
\* query.
UnitResumes(c, h) ==
    \/ GuardFires(c, h)
    \/ UnitFetched(c, h)
    \/ CatchFetched(c, h)
    \/ WriteOk(c, h) \/ WriteFails(c, h)
    \/ FbWriteOk(c, h) \/ FbWriteFails(c, h)

LiveFairness ==
    /\ \A c \in Cycles, h \in Hosts : WF_vars(UnitResumes(c, h))
    /\ \A c \in Cycles : WF_vars(CycleJoin(c))

\* g1 monitors h1 and h2 as in DocF; g2 has no configuration.
DocL == [g \in {"g1"} |-> DocF[g]]

InitLive ==
    /\ InitMemory
    /\ dbFile = Doc(Stringify(DocL))
    /\ chan = Managed([c \in Channels |-> VoiceName])

SpecLive == InitLive /\ [][NextLive]_vars /\ LiveFairness

\* ---- stopping a guild while its cycles are in flight
\* The members of g1 remove its servers and add one again, one command at a
\* time; g1 and g2 start with the entries of DocF and their intervals fire
\* while handlers and saves are under way.
StopCommand(i) ==
    \/ \E h \in Hosts : Interact(i, "removeserver", "g1", TRUE, h, FALSE, 0, None)
    \/ Interact(i, "addserver", "g1", TRUE, "h1", FALSE, 0, "c1")
    \/ RemoveContinue(i)
    \/ RemoveAfterSave(i)
    \/ AddContinue(i)
    \/ AddAfterSave(i)

InitStop ==
    /\ InitMemory
    /\ dbFile = Doc(Stringify(DocF))
    /\ chan = [c \in Channels |->
                  [exists |-> TRUE, manageable |-> FALSE, name |-> VoiceName]]

NextStop ==
    \/ loaded /\ StopCommand(1)
    \/ SaveSteps
    \/ Startup
    \/ \E g \in Guilds : Idle(g) /\ Tick(g)
    \/ UnmanagedCycles

SpecStop == InitStop /\ [][NextStop]_vars

\* ---- addserver and its save, one command at a time
\* The members add servers while the file system may refuse either write
\* and the process may die and be started again.
AddCommand(i) ==
    \/ \E g \in Guilds, ch \in {"c1", "c2"} :
          Interact(i, "addserver", g, TRUE, "h2", TRUE, 0, ch)
    \/ AddContinue(i)
    \/ AddAfterSave(i)

NextAdd ==
    \/ Quiet /\ AddCommand(1)
    \/ Quiet /\ SaveSteps
    \/ Quiet /\ SaveFailures
    \/ Quiet /\ Startup
    \/ Crash
    \/ Restart
    \/ UnmanagedCycles

SpecAdd == InitDown /\ [][NextAdd]_vars

\* ---- the ways the process ends: signals, exceptions nothing caught
\* The members add h2 to g1 while the process starts, runs and ends.
AddsToG1(i) ==
    \/ Interact(i, "addserver", "g1", TRUE, "h2", TRUE, 0, "c1")
    \/ AddContinue(i)
    \/ AddAfterSave(i)

\* The saves of the shutdown calls.
ShutdownSaveSteps ==
    \/ \E k \in Signals : TmpOpen(SdSlot(k))
    \/ \E k \in Signals : TmpWrite(SdSlot(k))
    \/ \E k \in Signals : Rename(SdSlot(k))

NextDown ==
    \/ Quiet /\ AddsToG1(1)
    \/ Quiet /\ SaveSteps
    \/ Quiet /\ ShutdownSaveSteps
    \/ Quiet /\ Startup
    \/ Quiet /\ \E g \in Guilds : Tick(g)
    \/ UnmanagedCycles
    \/ Quiet /\ \E k \in Signals : Signal(k)
    \/ \E k \in Signals : ShutdownSaved(k)
    \/ \E k \in Signals : ShutdownExit(k)
    \/ Quiet /\ UncaughtException
    \/ UnhandledRejection

SpecDown == InitDown /\ [][NextDown]_vars

\* ================================================================== claims
Running == {<<c, h>> \in Cycles \X Hosts : TRUE}

\* C1: every interval that exists and is not cleared is the one the tasks map
\* holds for its guild, and every handle in the map is such an interval: a
\* guild never has two active timers, however often it is started.
C1_OneTimerPerGuild ==
    /\ \A t \in live : tasks[t.guild] = t.id
    /\ \A g \in Guilds :
          tasks[g] # NoTimer => [id |-> tasks[g], guild |-> g] \in live

\* g1 has been started by two addserver commands (h1 on c3 and h2 both come
\* from commands that have finished) and is armed.
C1_Witness ==
    /\ \A i \in Slots : handlers[i].pc = "idle"
    /\ lastReply.cmd = "addserver" /\ lastReply.gid = "g1" /\ lastReply.reply = "ok"
    /\ DOMAIN Servers(db, "g1") = {"h1", "h2"}
    /\ Servers(db, "g1")["h1"].channelId = "c3"
    /\ tasks["g1"] # NoTimer

\* C2 as the specification states it: while the process is dead after a
\* crash, servers.json holds a whole document (or does not exist), never the
\* beginning of one.
C2_WholeDocumentAfterCrash == ~up => dbFile.kind # "partial"

\* C3: once the 7 s guard has fired the unit is on its failure path with no
\* result and no online write, whatever the status query does later; the
\* query settling late changes neither the unit's position, outcome, label
\* and writes nor any channel.
C3_TimeoutIsFailure ==
    [][\A c \in Cycles, h \in Hosts :
          LET u == units[c][h]
              v == units'[c][h]
          IN  /\ v.timedOut =>
                    /\ v.pc \in {"catch", "fbwriting", "done"}
                    /\ ~v.wroteOnline /\ v.res = NoRes
                    /\ v.pc = "done" =>
                          v.outcome \in {"offline", "offline_unchanged",
                                         "offline_skipped", "offline_failed"}
              /\ (u.timedOut /\ ~u.late /\ v.late) =>
                    /\ v.pc = u.pc /\ v.outcome = u.outcome
                    /\ v.writes = u.writes /\ v.label = u.label
                    /\ chan' = chan]_vars

\* A unit whose guard fired, whose status query settled afterwards, and which
\* ended by writing the offline name.
C3_Witness ==
    \E c \in Cycles, h \in Hosts :
        /\ units[c][h].timedOut /\ units[c][h].late
        /\ units[c][h].pc = "done" /\ units[c][h].outcome = "offline"

\* C4 as the specification states it: setName is only ever called on a channel
\* that is manageable at the moment of the call.
C4_NeverWritesUnmanageable ==
    [][\A c \in Cycles, h \in Hosts :
          units'[c][h].writes > units[c][h].writes =>
              chan[units'[c][h].cfg.channelId].manageable]_vars

\* C4 as the code has it: a unit that finds its channel not manageable when
\* it checks (line 93 on the online path, line 124 in the fallback) calls
\* setName no more and ends as skipped.
C4_SkipsWhenCheckFails ==
    [][\A c \in Cycles, h \in Hosts :
          LET u == units[c][h]
              v == units'[c][h]
              ch == u.cfg.channelId
          IN  (/\ u.pc \in {"fetching", "catch"} /\ v.pc # u.pc
               /\ fetchChannelSafe(cycles[c].guild, ch) # None
               /\ ~chan[ch].manageable) =>
                  /\ v.pc = "done"
                  /\ v.outcome = IF u.pc = "fetching" THEN "skipped"
                                 ELSE "offline_skipped"
                  /\ v.writes = u.writes]_vars

\* A unit whose status query timed out and which found the channel no longer
\* manageable in the fallback.
C4_Witness ==
    \E c \in Cycles, h \in Hosts :
        /\ units[c][h].pc = "done" /\ units[c][h].outcome = "offline_skipped"
        /\ units[c][h].timedOut /\ units[c][h].writes = 0
        /\ ~chan[units[c][h].cfg.channelId].manageable

\* The setName calls of a settled unit and of the entry's previous
\* reconciliation together, when both rendered the same online name.
Pair(u) ==
    IF u.pc = "done" /\ u.res # NoRes /\ u.prev.writes >= 0
       /\ u.prev.label = OnlineLabel(u.cfg, u.res)
    THEN u.prev.writes + u.writes
    ELSE 0

C6_NoWorkWithoutEntries ==
    [][\A c \in Cycles :
          /\ (cycles[c].state = "free" /\ cycles'[c].state = "running") =>
                /\ HasEntries(db, cycles'[c].guild)
                /\ {h \in Hosts : units'[c][h].pc # "none"} =
                      DOMAIN db[cycles'[c].guild].servers
          /\ cycles'[c].state = "free" =>
                \A h \in Hosts : units'[c][h] = NoUnit]_vars

\* updateGuild has run for g2, which has a key and no entries, and returned.
C6_Witness ==
    /\ lastReply.cmd = "status" /\ lastReply.gid = "g2"
    /\ lastReply.reply = "updated"
    /\ "g2" \in DOMAIN db /\ ~HasEntries(db, "g2")

\* C7: no unit ever rejects, so updateGuild never does; the step in which a
\* unit's status query or setName call throws leaves every other unit, every
\* cycle and every guild's interval as they were.
C7_FailureIsolation ==
    [][\A c \in Cycles, h \in Hosts :
          LET u == units[c][h]
              v == units'[c][h]
          IN  /\ v.pc # "rejected"
              /\ (/\ u.pc \in {"probing", "writing", "fbwriting"}
                  /\ (v.pc = "catch" \/ v.outcome = "offline_failed")) =>
                    /\ tasks' = tasks /\ live' = live /\ cycles' = cycles
                    /\ \A x \in Running \ {<<c, h>>} :
                          units'[x[1]][x[2]] = units[x[1]][x[2]]]_vars

\* In one cycle of g1 both setName calls of h1 were rejected and h2 was
\* updated; both guilds are still armed.
C7_Witness ==
    \E c \in Cycles :
        /\ cycles[c].guild = "g1"
        /\ units[c]["h1"].outcome = "offline_failed"
        /\ units[c]["h2"].outcome = "updated"
        /\ tasks["g1"] # NoTimer /\ tasks["g2"] # NoTimer

\* C8: the removeserver step that removes a guild's last entry clears the
\* guild's interval and hands a snapshot without the guild's key to the save,
\* which is what servers.json holds when the save, running alone, has renamed
\* the temp file; removing another entry leaves the interval and keeps the key.
C8_RemoveLastStops ==
    [][\A i \in Slots :
          LET h == handlers[i]
              g == h.gid
          IN  /\ (h.pc = "rm_deferred" /\ handlers'[i].pc = "rm_saving") =>
                    IF DOMAIN db[g].servers = {h.host}
                    THEN /\ tasks'[g] = NoTimer
                         /\ ~\E t \in live' : t.guild = g
                         /\ g \notin DOMAIN db'
                         /\ g \notin saves'[i].text.keys
                    ELSE /\ tasks'[g] = tasks[g] /\ live' = live
                         /\ g \in DOMAIN db'
                         /\ g \in saves'[i].text.keys
              /\ (/\ h.pc = "rm_saving" /\ saves[i].pc = "rename"
                  /\ saves'[i].pc = "resolved"
                  /\ \A j \in Slots \ {i} : saves[j].pc = "idle") =>
                    /\ dbFile'.kind = "doc"
                    /\ h.wasLast <=> g \notin DOMAIN Parse(dbFile'.doc)]_vars

\* A removeserver that removed the last entry of its guild and whose save has
\* just finished.
C8_Witness ==
    \E i \in Slots :
        /\ handlers[i].pc = "rm_saving" /\ handlers[i].wasLast
        /\ saves[i].pc = "resolved"
        /\ tasks[handlers[i].gid] = NoTimer
        /\ dbFile.kind = "doc" /\ handlers[i].gid \notin DOMAIN Parse(dbFile.doc)

\* C9: every name passed to setName has at most 100 characters, and a unit
\* that ends on the offline path with the name written or found in place
\* leaves the channel with the first 100 characters of the entry's offline
\* text (the default text when the entry has none).
C9_OfflineLabel ==
    [][\A c \in Cycles, h \in Hosts :
          LET u == units[c][h]
              v == units'[c][h]
          IN  /\ v.pc \in {"writing", "fbwriting"} =>
                    Len(v.label) <= SERVER_NAME_MAX
              /\ (/\ u.pc # "done" /\ v.pc = "done"
                  /\ v.outcome \in {"offline", "offline_unchanged"}) =>
                    chan'[v.cfg.channelId].name =
                        Slice(IF v.cfg.offlineName = <<>> THEN DefaultOfflineName
                              ELSE v.cfg.offlineName, SERVER_NAME_MAX)]_vars

\* A unit whose status query failed and whose offline text is longer than a
\* channel name may be has written its first 100 characters.
C9_Witness ==
    \E c \in Cycles, h \in Hosts :
        LET u == units[c][h]
        IN  /\ u.pc = "done" /\ u.outcome = "offline" /\ u.res = NoRes
            /\ Len(u.cfg.offlineName) > SERVER_NAME_MAX
            /\ chan[u.cfg.channelId].name = SubSeq(u.cfg.offlineName, 1, SERVER_NAME_MAX)

\* C10 as the specification states it: a request whose save failed on both
\* paths is not answered with success.
C10_FailedSaveReported == lastReply.saveFailed => lastReply.reply # "ok"

\* The step in which an interval fires: a cycle begins and neither a handler
\* nor the ClientReady loop has moved.
TimerLaunch ==
    /\ \E c \in Cycles : cycles[c].state = "free" /\ cycles'[c].state = "running"
    /\ handlers' = handlers /\ boot' = boot

\* C11 as the specification states it: the step in which an unexpected error
\* reaches the process (the unhandledRejection or the uncaughtException
\* listener runs) cancels every timer and starts a save of the snapshot.
C11_ErrorsShutDownGracefully ==
    [][(\/ ~proc.rejected /\ proc'.rejected
        \/ proc.cause = "none" /\ proc'.cause = "exception") =>
            /\ live' = {}
            /\ \E s \in Savers :
                  saves[s].pc = "idle" /\ saves'[s] = StartSave(db)]_vars

\* C12 as the specification states it: when the process exits on a signal no
\* interval is left uncleared, and from the first signal on no interval fires.
C12_NoTimerAfterSignal ==
    [][/\ (up /\ ~up' /\ proc'.cause = "signal") => live = {}
       /\ (\E k \in Signals : proc.sd[k] # "none") => ~TimerLaunch]_vars

\* C12 as the code has it: the step that handles the signal clears every
\* interval there is and starts one save of the snapshot as it is then; the
\* call goes on to client.destroy() only when that save has returned, and the
\* process exits on a signal only from there.
C12_CancelsSavesThenExits ==
    [][/\ \A k \in Signals :
            /\ (proc.sd[k] = "none" /\ proc'.sd[k] = "saving") =>
                  /\ live' = {}
                  /\ saves[SdSlot(k)].pc = "idle"
                  /\ saves'[SdSlot(k)] = StartSave(db)
            /\ (proc.sd[k] # "destroying" /\ proc'.sd[k] = "destroying") =>
                  /\ proc.sd[k] = "saving"
                  /\ saves[SdSlot(k)].pc = "resolved"
       /\ (up /\ ~up' /\ proc'.cause = "signal") =>
              \E k \in Signals : proc.sd[k] = "destroying"]_vars

\* The process has exited on a signal: g1, armed for h1 and h2, has had its
\* interval cleared, and servers.json holds both entries.
C12_Witness ==
    /\ ~up /\ proc.cause = "signal"
    /\ tasks["g1"] # NoTimer /\ live = {}
    /\ DOMAIN Servers(db, "g1") = {"h1", "h2"}
    /\ dbFile.kind = "doc" /\ dbFile.doc.members = Stringify(db).members

\* servers.json holds a whole document with an entry for host h of guild g.
EntryOnDisk(g, h) ==
    /\ dbFile.kind = "doc"
    /\ \E m \in dbFile.doc.members : m[1] = g /\ m[2] = h

\* The step in which the addserver handler i calls startMonitoring.
AddStarts(i) ==
    handlers[i].pc = "add_saving" /\ handlers'[i].pc = "idle" /\ up'

C14_OneSetNamePerUnit ==
    \A c \in Cycles, h \in Hosts : units[c][h].writes <= 1

\* C15 as the specification states it: every guild key of the in-memory
\* mapping has at least one entry.
C15_KeysHaveEntries == \A g \in DOMAIN db : DOMAIN db[g].servers # {}

\* Every handler has finished and every save has returned.
AllFinished ==
    /\ \A i \in Slots : handlers[i].pc = "idle"
    /\ \A s \in Savers : saves[s].pc = "idle"

\* C18 as the specification states it: once all handlers have finished, a
\* guild with an interval has at least one entry, and no handler has ended
\* in the error reply of line 336.
C18_ArmedOnlyWithEntries ==
    /\ AllFinished =>
          \A g \in Guilds : tasks[g] # NoTimer => HasEntries(db, g)
    /\ lastReply.reply # "error"

\* C19 as the specification states it: once handlers have saved and all
\* saves have returned, servers.json holds the entries of the in-memory
\* mapping.
C19_LatestSnapshotOnDisk ==
    (AllFinished /\ lastReply.reply = "ok") =>
        /\ dbFile.kind = "doc"
        /\ dbFile.doc.members = Stringify(db).members

\* C16: the step in which removeserver calls stopMonitoring(g) (line 301)
\* leaves g without a handle and without an interval, is a no-op for a guild
\* that has none, and changes no other guild's handle or interval and no
\* cycle or unit in flight; an interval fires only for a guild that holds a
\* handle, so none fires for g until g is started again.
C16_StopFrame ==
    [][/\ \A i \in Slots :
            LET h == handlers[i]
                g == h.gid
            IN  (/\ h.pc = "rm_deferred" /\ handlers'[i].pc = "rm_saving"
                 /\ handlers'[i].wasLast) =>
                    /\ tasks'[g] = NoTimer
                    /\ live' = {t \in live : t.guild # g}
                    /\ \A o \in Guilds \ {g} : tasks'[o] = tasks[o]
                    /\ tasks[g] = NoTimer => (tasks' = tasks /\ live' = live)
                    /\ cycles' = cycles /\ units' = units
       /\ \A c \in Cycles :
            (/\ cycles[c].state = "free" /\ cycles'[c].state = "running"
             /\ handlers' = handlers /\ boot' = boot) =>
                tasks[cycles'[c].guild] # NoTimer]_vars

\* g1 has just been stopped by the removal of its last entry while one of
\* its cycles is in flight; g2 keeps its interval.
C16_Witness ==
    \E i \in Slots, c \in Cycles :
        /\ handlers[i].pc = "rm_saving" /\ handlers[i].wasLast
        /\ handlers[i].gid = "g1"
        /\ tasks["g1"] = NoTimer /\ ~\E t \in live : t.guild = "g1"
        /\ cycles[c].state = "running" /\ cycles[c].guild = "g1"
        /\ \E h \in Hosts : units[c][h].pc = "fetching"
        /\ tasks["g2"] # NoTimer

\* The (guild, host) pairs a mapping has entries for.
EntriesOf(d) == {<<g, h>> : g \in DOMAIN d, h \in Hosts} \cap
                {e \in Guilds \X Hosts : e[2] \in DOMAIN Servers(d, e[1])}

\* C20 as the specification states it: the assignment of the loaded mapping
\* (line 56) discards no entry the mapping holds; as long as the mapping is
\* not loaded no save takes an entry out of servers.json; and when the load
\* and the ClientReady loop are both done, before any command, every guild
\* with an entry has its interval.
C20_StartupLoadLosesNothing ==
    [][/\ (~loaded /\ loaded') => EntriesOf(db) \subseteq EntriesOf(db')
       /\ (~loaded /\ ~loaded' /\ dbFile' # dbFile) =>
              EntriesOf(loadDB(dbFile)) \subseteq EntriesOf(loadDB(dbFile'))
       /\ (loaded' /\ boot' = "ready" /\ issued' = 0) =>
              \A g \in Guilds : HasEntries(db', g) => tasks'[g] # NoTimer]_vars

\* C17: every cycle that has been launched completes (all its units settle
\* and updateGuild returns), also when status queries never answer.
C17_CyclesComplete ==
    \A c \in Cycles : cycles[c].state = "running" ~> cycles[c].state = "free"

\* All units of a cycle of g1 have settled, one of them by its guard: its
\* status query is still pending and the sibling has updated its channel.
C17_Witness ==
    \E c \in Cycles :
        /\ cycles[c].state = "running" /\ cycles[c].guild = "g1"
        /\ \A h \in Hosts : units[c][h].pc = "done"
        /\ units[c]["h1"].timedOut /\ units[c]["h1"].probe = "pending"
        /\ units[c]["h2"].outcome = "updated"
====
